---------------------------- MODULE Spec2Model ----------------------------
(***************************************************************************)
(* The library inventory of jkdra/InventoryProjectCPP: the 3 x 15 grid of  *)
(* unique_ptr<Item> slots (shelves), the map of checked-out items          *)
(* (checkedOutItems) and the operations of class Inventory that move an    *)
(* item between them.  Items live on a heap: every make_unique allocates a *)
(* new object, and an object is destroyed when the unique_ptr that owns it *)
(* is overwritten or goes out of scope.                                    *)
(*                                                                         *)
(*   shelves          the grid: shelves[row][col] is NULL or an object     *)
(*   checkedOutItems  the map from item id strings to CheckoutInfo         *)
(*   heap             heap[o] is the value of object o (allocation order)  *)
(*   passed           passed[o] is the item addItem was given when it      *)
(*                    allocated object o                                   *)
(*   freed            the objects that have been destroyed                 *)
(*   call             the last call: operation, arguments, outcome         *)
(***************************************************************************)
EXTENDS Integers, Sequences, FiniteSets, TLC

VARIABLES shelves, checkedOutItems, heap, passed, freed, call

vars == <<shelves, checkedOutItems, heap, passed, freed, call>>

---------------------------------------------------------------------------
(* Program constants *)

NumShelves == 3

NumCompartments == 15

DueDays == 30

FirstId == 1000

(* Bounds of the model *)

MaxObjs == 2

---------------------------------------------------------------------------
(* Position *)

Position(r, c) == [row |-> r, col |-> c]

(* isValid with compartment 0 left out of the range *)
isValid_ColFromOne(pos) ==
    pos.row >= 0 /\ pos.row < 3 /\ pos.col > 0 /\ pos.col < 15

isValid(pos) ==
    pos.row >= 0 /\ pos.row < NumShelves /\ pos.col >= 0 /\ pos.col < NumCompartments

(* The slots of the array unique_ptr<Item> shelves[3][15] *)
Slots == {Position(r, c) : r \in 0 .. NumShelves - 1, c \in 0 .. NumCompartments - 1}

(* shelves[pos.getRow()][pos.getCol()] *)
At(grid, pos) == grid[pos.row][pos.col]

(* Put with the column index dropped: the write lands in compartment 0 *)
Put_ColumnZero(grid, pos, p) == [grid EXCEPT ![pos.row][0] = p]

(* grid after shelves[pos.getRow()][pos.getCol()] = p *)
Put(grid, pos, p) == [grid EXCEPT ![pos.row][pos.col] = p]

(* The null unique_ptr; objects are numbered from 1 in allocation order *)
NULL == 0

---------------------------------------------------------------------------
(* Items.  kind is the dynamic type of the object. *)

NoFields == <<>>

MakeItem(name, description, id) ==
    [kind |-> "Item", name |-> name, description |-> description, id |-> id,
     fields |-> NoFields]

MakeBook(name, description, id, title, author, copyrightDate) ==
    [kind |-> "Book", name |-> name, description |-> description, id |-> id,
     fields |-> <<title, author, copyrightDate>>]

MakeMagazine(name, description, id, edition, title) ==
    [kind |-> "Magazine", name |-> name, description |-> description, id |-> id,
     fields |-> <<edition, title>>]

MakeMovie(name, description, id, title, director, mainActors) ==
    [kind |-> "Movie", name |-> name, description |-> description, id |-> id,
     fields |-> <<title, director, mainActors>>]

(* Item's implicit copy constructor, as make_unique<Item>(item) calls it: *)
(* the new object is an Item, built from the Item base part of its source  *)
CopyAsItem(item) == MakeItem(item.name, item.description, item.id)

---------------------------------------------------------------------------
(* std::to_string(int) as a sequence of characters *)

DigitChars == <<"0", "1", "2", "3", "4", "5", "6", "7", "8", "9">>

RECURSIVE NatToString(_)
NatToString(n) ==
    IF n < 10 THEN <<DigitChars[n + 1]>>
    ELSE NatToString(n \div 10) \o <<DigitChars[(n % 10) + 1]>>

to_string(n) == IF n < 0 THEN <<"-">> \o NatToString(-n) ELSE NatToString(n)

(* getStringId with a zero in front of the digits *)
getStringId_ZeroPadded(id) == <<"0">> \o to_string(id)

getStringId(id) == to_string(id)

---------------------------------------------------------------------------
(* The due date: time, localtime, tm_mday += 30, mktime, put_time.        *)
(* A struct tm is [tm_year (years since 1900), tm_mon (0..11), tm_mday,   *)
(* tm_hour, tm_isdst].  The value of time(nullptr) is written as the      *)
(* civil time it is in the standard time of the process's zone TZ:        *)
(* [TZ, tm_year, tm_mon, tm_mday, tm_hour].                               *)

IsLeap(y) == (y % 4 = 0 /\ y % 100 # 0) \/ y % 400 = 0

DaysInMonth(tm_year, tm_mon) ==
    IF tm_mon = 1 THEN (IF IsLeap(tm_year + 1900) THEN 29 ELSE 28)
    ELSE IF tm_mon \in {3, 5, 8, 10} THEN 30 ELSE 31

(* The zones of the process: one without and one with daylight saving     *)
(* time.  In America/New_York the clocks go from 02:00 standard time to   *)
(* 03:00 on the second Sunday of March, and back from 02:00 daylight time *)
(* (01:00 standard time) on the first Sunday of November.                 *)
DstRules ==
    [y \in {124, 125, 126} |->
        IF y = 124 THEN [start |-> <<2, 10, 2>>, end |-> <<10, 3, 1>>]
        ELSE IF y = 125 THEN [start |-> <<2, 9, 2>>, end |-> <<10, 2, 1>>]
        ELSE [start |-> <<2, 8, 2>>, end |-> <<10, 1, 1>>]]

Earlier(a, b) ==
    \/ a[1] < b[1]
    \/ a[1] = b[1] /\ a[2] < b[2]
    \/ a[1] = b[1] /\ a[2] = b[2] /\ a[3] < b[3]

(* Whether daylight saving time is in effect in the zone at a standard time *)
InDst(TZ, t) ==
    /\ TZ = "America/New_York"
    /\ t.tm_year \in DOMAIN DstRules
    /\ ~Earlier(<<t.tm_mon, t.tm_mday, t.tm_hour>>, DstRules[t.tm_year].start)
    /\ Earlier(<<t.tm_mon, t.tm_mday, t.tm_hour>>, DstRules[t.tm_year].end)

(* The normalisation of a tm whose tm_hour or tm_mday is out of range *)
RECURSIVE Normalize(_)
Normalize(tm) ==
    IF tm.tm_hour < 0
    THEN Normalize([tm EXCEPT !.tm_hour = @ + 24, !.tm_mday = @ - 1])
    ELSE IF tm.tm_hour > 23
    THEN Normalize([tm EXCEPT !.tm_hour = @ - 24, !.tm_mday = @ + 1])
    ELSE IF tm.tm_mday < 1
    THEN LET y == IF tm.tm_mon = 0 THEN tm.tm_year - 1 ELSE tm.tm_year
             m == IF tm.tm_mon = 0 THEN 11 ELSE tm.tm_mon - 1
         IN Normalize([tm EXCEPT !.tm_year = y, !.tm_mon = m,
                                 !.tm_mday = @ + DaysInMonth(y, m)])
    ELSE IF tm.tm_mday > DaysInMonth(tm.tm_year, tm.tm_mon)
    THEN Normalize([tm EXCEPT
                      !.tm_year = IF tm.tm_mon = 11 THEN @ + 1 ELSE @,
                      !.tm_mon  = IF tm.tm_mon = 11 THEN 0 ELSE @ + 1,
                      !.tm_mday = @ - DaysInMonth(tm.tm_year, tm.tm_mon)])
    ELSE tm

(* localtime: the struct tm of a time in the zone *)
localtime(now) ==
    LET t == [tm_year |-> now.tm_year, tm_mon |-> now.tm_mon, tm_mday |-> now.tm_mday,
              tm_hour |-> now.tm_hour, tm_isdst |-> 0]
    IN IF InDst(now.TZ, t)
       THEN Normalize([t EXCEPT !.tm_hour = @ + 1, !.tm_isdst = 1])
       ELSE t

(* mktime: tm is read as a time on the clock tm_isdst names (a positive   *)
(* tm_isdst is daylight time, one hour ahead of standard time), and is    *)
(* written back as the local time of that moment.                         *)
mktime(TZ, tm) ==
    LET wall == Normalize(tm)
        std  == IF tm.tm_isdst > 0
                THEN Normalize([wall EXCEPT !.tm_hour = @ - 1])
                ELSE wall
    IN localtime([TZ |-> TZ, tm_year |-> std.tm_year, tm_mon |-> std.tm_mon,
                  tm_mday |-> std.tm_mday, tm_hour |-> std.tm_hour])

Pad2(n) == IF n < 10 THEN <<"0">> \o NatToString(n) ELSE NatToString(n)

(* put_time(&tm, "%Y-%m-%d") *)
put_time(tm) ==
    NatToString(tm.tm_year + 1900) \o <<"-">> \o Pad2(tm.tm_mon + 1) \o <<"-">>
        \o Pad2(tm.tm_mday)

(* checkoutItem, lines 155-161 *)
DueDate(now) ==
    LET tm == localtime(now)
    IN put_time(mktime(now.TZ, [tm EXCEPT !.tm_mday = @ + DueDays]))

---------------------------------------------------------------------------
(* CheckoutInfo *)

(* CheckoutInfo with the row and the column of the position exchanged *)
CheckoutInfo_RowColExchanged(by, due, pos, i) ==
    [checkedOutBy |-> by, dueDate |-> due,
     originalPosition |-> Position(pos.col, pos.row), item |-> i]

CheckoutInfo(by, due, pos, i) ==
    [checkedOutBy |-> by, dueDate |-> due, originalPosition |-> pos, item |-> i]

---------------------------------------------------------------------------
(* The inputs the operations are called with *)

PositionInputs ==
    {Position(0, NumCompartments - 1), Position(NumShelves - 1, 0),
     Position(-1, 0), Position(NumShelves, 0),
     Position(0, -1), Position(0, NumCompartments)}

(* swapItems is called with the two valid positions and two invalid ones *)
SwapPositionInputs == {pos \in PositionInputs : pos.row >= 0 /\ pos.col >= 0}

(* The items addItem is called with: a Book and a Movie with different    *)
(* identities; adding one of them twice gives two items with one identity *)
AddItemInputs ==
    {MakeBook("n", "d", FirstId - 1, "t", "a", "c"),
     MakeMovie("n", "d", FirstId, "t", "r", <<"x", "y">>)}

(* The items checkinItem is called with: the stand-in main builds from an *)
(* identity alone, and a Magazine with the identity of the Book           *)
CheckinItemInputs ==
    {MakeItem("", "", FirstId - 1), MakeItem("", "", FirstId),
     MakeMagazine("n", "d", FirstId - 1, "e", "t")}

(* The id strings checkoutItem and isItemCheckedOut are called with: the   *)
(* decimal forms of the identities, and "0999", which no item converts to *)
ItemIdInputs ==
    {getStringId(item.id) : item \in AddItemInputs} \cup {<<"0", "9", "9", "9">>}

NameInputs == {"Alice", "Bob"}

NowInputs ==
    {[TZ |-> "UTC", tm_year |-> 125, tm_mon |-> 11, tm_mday |-> 15, tm_hour |-> 10]}

NoTime == [TZ |-> "UTC", tm_year |-> 70, tm_mon |-> 0, tm_mday |-> 1, tm_hour |-> 0]

---------------------------------------------------------------------------
(* The last call of an operation: its arguments and how it ended.  thrown *)
(* is the type of the exception ("none" when the call returned), what its *)
(* message, retPtr the Item* returned, retBool the bool returned, now the *)
(* value of time(nullptr) in a call of checkoutItem that found its item,  *)
(* out the lines written to cout.                                         *)

NoCall ==
    [op |-> "Inventory", position |-> Position(0, 0), position2 |-> Position(0, 0),
     item |-> MakeItem("", "", 0), itemId |-> <<>>, checkOutBy |-> "",
     now |-> NoTime,
     thrown |-> "none", what |-> "", retPtr |-> NULL, retBool |-> FALSE, out |-> <<>>]

(* Inventory::Inventory *)
Init ==
    /\ shelves = [r \in 0 .. NumShelves - 1 |-> [c \in 0 .. NumCompartments - 1 |-> NULL]]
    /\ checkedOutItems = <<>>
    /\ heap = <<>>
    /\ passed = <<>>
    /\ freed = {}
    /\ call = NoCall

(* The emptiness test that finds every compartment empty *)
isCompartmentEmptyAt_Always(pos) == TRUE

(* The emptiness test with the comparison inverted *)
isCompartmentEmptyAt_Inverted(pos) == At(shelves, pos) # NULL

isCompartmentEmptyAt(pos) == At(shelves, pos) = NULL

(* The membership test answered by whether anything is checked out *)
isItemCheckedOutFor_AnyKey(itemId) == checkedOutItems # <<>>

isItemCheckedOutFor(itemId) == itemId \in DOMAIN checkedOutItems

(* Inventory::isCompartmentEmpty *)
isCompartmentEmpty(pos) ==
    /\ call' = IF ~isValid(pos)
               THEN [NoCall EXCEPT !.op = "isCompartmentEmpty", !.position = pos,
                                   !.thrown = "out_of_range",
                                   !.what = "Position is out of range"]
               ELSE [NoCall EXCEPT !.op = "isCompartmentEmpty", !.position = pos,
                                   !.retBool = isCompartmentEmptyAt(pos)]
    /\ UNCHANGED <<shelves, checkedOutItems, heap, passed, freed>>

(* Inventory::isItemCheckedOut *)
isItemCheckedOut(itemId) ==
    /\ call' = [NoCall EXCEPT !.op = "isItemCheckedOut", !.itemId = itemId,
                              !.retBool = isItemCheckedOutFor(itemId)]
    /\ UNCHANGED <<shelves, checkedOutItems, heap, passed, freed>>

(* addItem with the occupancy test before the validity test, a position  *)
(* outside the grid reading as occupied                                  *)
addItem_OccupancyFirst(position, item) ==
    LET c == [NoCall EXCEPT !.op = "addItem", !.position = position, !.item = item] IN
    IF ~isValid(position) \/ ~isCompartmentEmptyAt(position)
    THEN /\ call' = [c EXCEPT !.thrown = "runtime_error",
                              !.what = "Compartment is not empty"]
         /\ UNCHANGED <<shelves, checkedOutItems, heap, passed, freed>>
    ELSE /\ Len(heap) < MaxObjs
         /\ heap' = Append(heap, CopyAsItem(item))
         /\ passed' = Append(passed, item)
         /\ shelves' = Put(shelves, position, Len(heap) + 1)
         /\ call' = c
         /\ UNCHANGED <<checkedOutItems, freed>>

(* Inventory::addItem, in a run that creates at most max objects *)
addItemWithin(position, item, max) ==
    LET c == [NoCall EXCEPT !.op = "addItem", !.position = position, !.item = item] IN
    IF ~isValid(position)
    THEN /\ call' = [c EXCEPT !.thrown = "out_of_range",
                              !.what = "Position is out of valid range"]
         /\ UNCHANGED <<shelves, checkedOutItems, heap, passed, freed>>
    ELSE IF ~isCompartmentEmptyAt(position)
    THEN /\ call' = [c EXCEPT !.thrown = "runtime_error",
                              !.what = "Compartment is not empty"]
         /\ UNCHANGED <<shelves, checkedOutItems, heap, passed, freed>>
    ELSE /\ Len(heap) < max
         /\ heap' = Append(heap, CopyAsItem(item))
         /\ passed' = Append(passed, item)
         /\ shelves' = Put(shelves, position, Len(heap) + 1)
         /\ call' = c
         /\ UNCHANGED <<checkedOutItems, freed>>

(* Inventory::addItem *)
addItem(position, item) == addItemWithin(position, item, MaxObjs)

(* The loops of checkoutItem without the comparison of the id: the first *)
(* occupied slot is taken                                                *)
RECURSIVE FindItem_AnyOccupied(_, _, _)
FindItem_AnyOccupied(itemId, i, j) ==
    IF i >= NumShelves THEN Position(NumShelves, 0)
    ELSE IF j >= NumCompartments THEN FindItem_AnyOccupied(itemId, i + 1, 0)
    ELSE IF shelves[i][j] # NULL
         THEN Position(i, j)
         ELSE FindItem_AnyOccupied(itemId, i, j + 1)

(* The loops of checkoutItem: the first slot from (i, j) on, in row-major  *)
(* order, that is occupied by an item whose id converts to itemId;        *)
(* Position(NumShelves, 0) when the loops end without one.                *)
RECURSIVE FindItem(_, _, _)
FindItem(itemId, i, j) ==
    IF i >= NumShelves THEN Position(NumShelves, 0)
    ELSE IF j >= NumCompartments THEN FindItem(itemId, i + 1, 0)
    ELSE IF /\ shelves[i][j] # NULL
            /\ getStringId(heap[shelves[i][j]].id) = itemId
         THEN Position(i, j)
         ELSE FindItem(itemId, i, j + 1)

(* std::map::emplace: inserts only when the key is not in the map *)
emplace(map, key, info) ==
    IF key \in DOMAIN map THEN map ELSE (key :> info) @@ map

(* The objects destroyed by checkoutItem's emplace: a CheckoutInfo that   *)
(* is not inserted is destroyed, and the item it owns with it             *)
emplaceDestroys(map, key, info) ==
    IF key \in DOMAIN map THEN {info.item} ELSE {}

(* Inventory::checkoutItem *)
checkoutItem(itemId, checkOutBy, now) ==
    LET c   == [NoCall EXCEPT !.op = "checkoutItem", !.itemId = itemId,
                              !.checkOutBy = checkOutBy]
        pos == FindItem(itemId, 0, 0)
    IN
    IF pos.row >= NumShelves
    THEN /\ call' = [c EXCEPT !.thrown = "runtime_error",
                              !.what = "Item with ID not found"]
         /\ UNCHANGED <<shelves, checkedOutItems, heap, passed, freed>>
    ELSE LET itemPtr == At(shelves, pos)
             info    == CheckoutInfo(checkOutBy, DueDate(now), pos, itemPtr)
         IN /\ shelves' = Put(shelves, pos, NULL)
            /\ checkedOutItems' = emplace(checkedOutItems, itemId, info)
            /\ freed' = freed \cup emplaceDestroys(checkedOutItems, itemId, info)
            /\ call' = [c EXCEPT !.now = now, !.retPtr = itemPtr]
            /\ UNCHANGED <<heap, passed>>

(* unique_ptr's move assignment slot = move(p): the slot takes p, and the *)
(* object the slot owned before is destroyed                              *)
moveAssign(grid, pos, p) == Put(grid, pos, p)

moveAssignDestroys(grid, pos) ==
    IF At(grid, pos) # NULL THEN {At(grid, pos)} ELSE {}

(* erase that leaves the entry in the map *)
erase_KeepsEntry(map, key) == map

(* std::map::erase *)
erase(map, key) == [k \in DOMAIN map \ {key} |-> map[k]]

(* The lookup of checkinItem with a key padded by a zero, which is never *)
(* a key of the map                                                      *)
checkinNotFound_PaddedKey(map, item) == (<<"0">> \o getStringId(item.id)) \notin DOMAIN map

(* checkinItem, line 204: the find fails *)
checkinNotFound(map, item) == getStringId(item.id) \notin DOMAIN map

(* checkinItem, lines 210-213: the grid after the record's item is moved  *)
(* back to the record's original position                                 *)
checkinShelves(grid, map, item) ==
    LET it  == map[getStringId(item.id)]
        pos == it.originalPosition
    IN moveAssign(grid, pos, it.item)

(* checkinItem, line 213: the object that move assignment destroys *)
checkinDestroys(grid, map, item) ==
    moveAssignDestroys(grid, map[getStringId(item.id)].originalPosition)

(* checkinItem, line 216 *)
checkinMap(map, item) == erase(map, getStringId(item.id))

(* Inventory::checkinItem *)
checkinItem(item) ==
    LET c == [NoCall EXCEPT !.op = "checkinItem", !.item = item] IN
    IF checkinNotFound(checkedOutItems, item)
    THEN /\ call' = [c EXCEPT !.thrown = "runtime_error",
                              !.what = "Item is not checked out"]
         /\ UNCHANGED <<shelves, checkedOutItems, heap, passed, freed>>
    ELSE /\ shelves' = checkinShelves(shelves, checkedOutItems, item)
         /\ freed' = freed \cup checkinDestroys(shelves, checkedOutItems, item)
         /\ checkedOutItems' = checkinMap(checkedOutItems, item)
         /\ call' = c
         /\ UNCHANGED <<heap, passed>>

(* swap without a temporary: both slots end up with the second item *)
swap_NoTemporary(grid, pos1, pos2) == Put(Put(grid, pos1, At(grid, pos2)), pos2, At(grid, pos2))

(* std::swap of two slots *)
swap(grid, pos1, pos2) == Put(Put(grid, pos1, At(grid, pos2)), pos2, At(grid, pos1))

(* swapItems that refuses to swap a compartment with itself *)
swapItems_RejectsSame(pos1, pos2) ==
    LET c == [NoCall EXCEPT !.op = "swapItems", !.position = pos1, !.position2 = pos2] IN
    IF ~isValid(pos1) \/ ~isValid(pos2)
    THEN /\ call' = [c EXCEPT !.thrown = "out_of_range",
                              !.what = "Position is out of valid range"]
         /\ UNCHANGED <<shelves, checkedOutItems, heap, passed, freed>>
    ELSE IF isCompartmentEmptyAt(pos1) \/ isCompartmentEmptyAt(pos2) \/ pos1 = pos2
    THEN /\ call' = [c EXCEPT !.thrown = "runtime_error",
                              !.what = "Cannot swap: one or both compartments are empty"]
         /\ UNCHANGED <<shelves, checkedOutItems, heap, passed, freed>>
    ELSE /\ shelves' = swap(shelves, pos1, pos2)
         /\ call' = c
         /\ UNCHANGED <<checkedOutItems, heap, passed, freed>>

(* swapItems with the swap done before the check for empty compartments *)
swapItems_SwapBeforeCheck(pos1, pos2) ==
    LET c == [NoCall EXCEPT !.op = "swapItems", !.position = pos1, !.position2 = pos2] IN
    IF ~isValid(pos1) \/ ~isValid(pos2)
    THEN /\ call' = [c EXCEPT !.thrown = "out_of_range",
                              !.what = "Position is out of valid range"]
         /\ UNCHANGED <<shelves, checkedOutItems, heap, passed, freed>>
    ELSE /\ shelves' = swap(shelves, pos1, pos2)
         /\ call' = IF isCompartmentEmptyAt(pos1) \/ isCompartmentEmptyAt(pos2)
                    THEN [c EXCEPT !.thrown = "runtime_error",
                                   !.what = "Cannot swap: one or both compartments are empty"]
                    ELSE c
         /\ UNCHANGED <<checkedOutItems, heap, passed, freed>>

(* Inventory::swapItems *)
swapItems(pos1, pos2) ==
    LET c == [NoCall EXCEPT !.op = "swapItems", !.position = pos1, !.position2 = pos2] IN
    IF ~isValid(pos1) \/ ~isValid(pos2)
    THEN /\ call' = [c EXCEPT !.thrown = "out_of_range",
                              !.what = "Position is out of valid range"]
         /\ UNCHANGED <<shelves, checkedOutItems, heap, passed, freed>>
    ELSE IF isCompartmentEmptyAt(pos1) \/ isCompartmentEmptyAt(pos2)
    THEN /\ call' = [c EXCEPT !.thrown = "runtime_error",
                              !.what = "Cannot swap: one or both compartments are empty"]
         /\ UNCHANGED <<shelves, checkedOutItems, heap, passed, freed>>
    ELSE /\ shelves' = swap(shelves, pos1, pos2)
         /\ call' = c
         /\ UNCHANGED <<checkedOutItems, heap, passed, freed>>

Next ==
    \/ \E pos \in PositionInputs : isCompartmentEmpty(pos)
    \/ \E itemId \in ItemIdInputs : isItemCheckedOut(itemId)
    \/ \E pos \in PositionInputs, item \in AddItemInputs : addItem(pos, item)
    \/ \E itemId \in ItemIdInputs, by \in NameInputs, now \in NowInputs :
           checkoutItem(itemId, by, now)
    \/ \E item \in CheckinItemInputs : checkinItem(item)
    \/ \E pos1 \in SwapPositionInputs, pos2 \in SwapPositionInputs : swapItems(pos1, pos2)

Spec == Init /\ [][Next]_vars

---------------------------------------------------------------------------
(* Vocabulary of the properties *)

(* The objects addItem has allocated so far *)
Objects == 1 .. Len(heap)

Occupied(grid, pos) == grid[pos.row][pos.col] # NULL

SlotsHolding(o) == {pos \in Slots : shelves[pos.row][pos.col] = o}

RecordsHolding(o) == {k \in DOMAIN checkedOutItems : checkedOutItems[k].item = o}

(* The occupied slots whose item has the identity string itemId *)
SlotsWithIdentity(itemId) ==
    {pos \in Slots : /\ Occupied(shelves, pos)
                     /\ to_string(heap[shelves[pos.row][pos.col]].id) = itemId}

CheckoutReturned == call.op = "checkoutItem" /\ call.thrown = "none"

---------------------------------------------------------------------------
(* C1: after any sequence of calls, every item that was successfully      *)
(* added is owned by exactly one of a Grid slot and a Ledger record, and  *)
(* none has been removed from the system (destroyed).                     *)
C1_ExactlyOneOwner ==
    \A o \in Objects :
        /\ Cardinality(SlotsHolding(o)) + Cardinality(RecordsHolding(o)) = 1
        /\ o \notin freed

(* C2: there is at most one Ledger entry per identity, and no identity is *)
(* at once the identity of an item in a Grid slot and a key of the Ledger.*)
C2_GridLedgerDisjoint ==
    /\ \A k1 \in DOMAIN checkedOutItems, k2 \in DOMAIN checkedOutItems :
           heap[checkedOutItems[k1].item].id = heap[checkedOutItems[k2].item].id
               => k1 = k2
    /\ \A k \in DOMAIN checkedOutItems : SlotsWithIdentity(k) = {}

(* C3: for every Ledger record, the Grid slot at the record's             *)
(* originalPosition is empty.                                             *)
C3_OriginalSlotEmpty ==
    \A k \in DOMAIN checkedOutItems :
        ~Occupied(shelves, checkedOutItems[k].originalPosition)

(* C4: when checkoutItem(identity, custodian) finds a matching occupied   *)
(* slot s, afterwards the Ledger maps identity to a record with that      *)
(* custodian, originalPosition s and the item that was in s, slot s is    *)
(* empty, and every other slot and every other Ledger entry is unchanged. *)
C4_CheckoutEffect ==
    [][(call'.op = "checkoutItem" /\ call'.thrown = "none") =>
         \E s \in SlotsWithIdentity(call'.itemId) :
            /\ call'.itemId \in DOMAIN checkedOutItems'
            /\ checkedOutItems'[call'.itemId].checkedOutBy = call'.checkOutBy
            /\ checkedOutItems'[call'.itemId].originalPosition = s
            /\ checkedOutItems'[call'.itemId].item = shelves[s.row][s.col]
            /\ shelves' = [shelves EXCEPT ![s.row][s.col] = NULL]
            /\ DOMAIN checkedOutItems' = DOMAIN checkedOutItems \cup {call'.itemId}
            /\ \A k \in DOMAIN checkedOutItems \ {call'.itemId} :
                   checkedOutItems'[k] = checkedOutItems[k]]_vars

(* C5: the pointer a successful checkoutItem(identity, custodian) returns *)
(* designates, at the moment of return, an existing item that is held by  *)
(* the Ledger record under key identity and has that identity.            *)
C5_ReturnedItemIsLedgerHeld ==
    CheckoutReturned =>
        /\ call.retPtr \in Objects \ freed
        /\ call.itemId \in DOMAIN checkedOutItems
        /\ checkedOutItems[call.itemId].item = call.retPtr
        /\ to_string(heap[call.retPtr].id) = call.itemId
        /\ SlotsHolding(call.retPtr) = {}

(* C6: checkinItem(item) with an identity that is a Ledger key succeeds,  *)
(* puts the record's item in the Grid at the record's originalPosition    *)
(* and removes the Ledger entry; only the identity of item matters.       *)
C6_CheckinEffect ==
    [][(call'.op = "checkinItem" /\ to_string(call'.item.id) \in DOMAIN checkedOutItems) =>
         LET key == to_string(call'.item.id)
             rec == checkedOutItems[key]
             pos == rec.originalPosition
         IN /\ call'.thrown = "none"
            /\ shelves' = [shelves EXCEPT ![pos.row][pos.col] = rec.item]
            /\ checkedOutItems' = [k \in DOMAIN checkedOutItems \ {key} |->
                                       checkedOutItems[k]]
            /\ key \notin DOMAIN checkedOutItems']_vars

C6_Witness ==
    /\ call.op = "checkinItem" /\ call.thrown = "none"
    /\ call.item.kind = "Magazine"
    /\ \E o \in Objects : /\ heap[o].id = call.item.id
                          /\ SlotsHolding(o) # {}
                          /\ heap[o] # call.item

(* C7: checkoutItem(identity, who) followed by checkinItem(a stand-in     *)
(* with that identity) puts the item back where it was: the Grid and the  *)
(* Ledger are as before the checkout, and no item has been destroyed.     *)
C7_RoundTrip ==
    [][(call'.op = "checkoutItem" /\ call'.thrown = "none") =>
         \A standIn \in {x \in CheckinItemInputs : to_string(x.id) = call'.itemId} :
            /\ ~checkinNotFound(checkedOutItems', standIn)
            /\ checkinShelves(shelves', checkedOutItems', standIn) = shelves
            /\ checkinMap(checkedOutItems', standIn) = checkedOutItems
            /\ freed' \cup checkinDestroys(shelves', checkedOutItems', standIn) = freed
            /\ \A s \in SlotsWithIdentity(call'.itemId) :
                   Occupied(checkinShelves(shelves', checkedOutItems', standIn), s)]_vars

(* C8: a call of addItem, checkoutItem, checkinItem, swapItems or         *)
(* isCompartmentEmpty that fails leaves the Grid and the Ledger (and the  *)
(* items they own) as they were.                                          *)
C8_FailureChangesNothing ==
    [][call'.thrown # "none" =>
         /\ shelves' = shelves
         /\ checkedOutItems' = checkedOutItems
         /\ heap' = heap
         /\ freed' = freed]_vars

C8_Witness ==
    /\ call.op = "swapItems" /\ call.thrown = "runtime_error"
    /\ Occupied(shelves, call.position) # Occupied(shelves, call.position2)
    /\ checkedOutItems # <<>>

(* C9: addItem stores a copy that keeps the subtype and the subtype's     *)
(* fields of the item passed in: every item held by a Grid slot or by a   *)
(* Ledger record equals the item that was passed to addItem.              *)
C9_SubtypePreserved ==
    \A o \in Objects :
        (SlotsHolding(o) # {} \/ RecordsHolding(o) # {}) => heap[o] = passed[o]

(* C10: every slot is empty right after construction; right after a      *)
(* successful addItem(p, _) slot p is occupied, and no other slot and no  *)
(* Ledger entry has changed.                                              *)
C10_EmptyThenOccupied ==
    /\ [](call.op = "Inventory" => \A pos \in Slots : isCompartmentEmptyAt(pos))
    /\ [][(call'.op = "addItem" /\ call'.thrown = "none") =>
            /\ isValid(call'.position)
            /\ shelves'[call'.position.row][call'.position.col] # NULL
            /\ \A pos \in Slots \ {call'.position} :
                   shelves'[pos.row][pos.col] = shelves[pos.row][pos.col]
            /\ checkedOutItems' = checkedOutItems]_vars

C10_Witness ==
    /\ call.op = "addItem" /\ call.thrown = "none"
    /\ ~isCompartmentEmptyAt(call.position)
    /\ checkedOutItems # <<>>

---------------------------------------------------------------------------
(* Inventory::operator[] (non-const), Inventory.cpp 60-63: the row of     *)
(* unique_ptr<Item> is handed to the caller as unique_ptr<Item>*, so the  *)
(* caller's expression inventory[shelfIndex][col] is the slot itself.     *)
(* The action is the call together with the caller's use of the slot:     *)
(* "read" looks at the pointer, "reset" is inventory[shelfIndex][col]     *)
(* .reset(), which destroys the object the slot owns.                     *)

SubscriptInputs == {pos \in PositionInputs : pos.col >= 0 /\ pos.col < NumCompartments}

SubscriptUses == {"read", "reset"}

operatorSubscript(shelfIndex, col, use) ==
    LET c == [NoCall EXCEPT !.op = "operator[]", !.position = Position(shelfIndex, col)] IN
    IF shelfIndex < 0 \/ shelfIndex >= NumShelves
    THEN /\ call' = [c EXCEPT !.thrown = "out_of_range",
                              !.what = "Shelf index out of range"]
         /\ UNCHANGED <<shelves, checkedOutItems, heap, passed, freed>>
    ELSE IF use = "reset"
    THEN /\ shelves' = Put(shelves, Position(shelfIndex, col), NULL)
         /\ freed' = freed \cup moveAssignDestroys(shelves, Position(shelfIndex, col))
         /\ call' = c
         /\ UNCHANGED <<checkedOutItems, heap, passed>>
    ELSE /\ call' = [c EXCEPT !.retPtr = shelves[shelfIndex][col]]
         /\ UNCHANGED <<shelves, checkedOutItems, heap, passed, freed>>

NextSubscript ==
    \/ Next
    \/ \E pos \in SubscriptInputs, use \in SubscriptUses :
           operatorSubscript(pos.row, pos.col, use)

SpecSubscript == Init /\ [][NextSubscript]_vars

---------------------------------------------------------------------------
(* checkoutItem at the times of day and on the days of the year where the *)
(* due date is at stake: midnight, noon and the last hour of the day, at  *)
(* the start, the middle and the end of every month of a leap year and of *)
(* the year after it, in a zone without and a zone with daylight saving   *)
(* time.  One item is added to one compartment, and is checked out while  *)
(* nothing is checked out and checked in again, over and over.            *)

DueDateZones == {"UTC", "America/New_York"}

DueDateYears == {124, 125}

DueDateDays == {1, 10, 20, 28, 29, 30, 31}

DueDateHours == {0, 12, 23}

DueDateNowInputs ==
    {[TZ |-> z, tm_year |-> y, tm_mon |-> m, tm_mday |-> d, tm_hour |-> h] :
        z \in DueDateZones, y \in DueDateYears,
        m \in 0 .. 11, d \in DueDateDays, h \in DueDateHours}

NextDueDate ==
    \/ /\ checkedOutItems = <<>>
       /\ addItem(Position(0, NumCompartments - 1),
                  MakeBook("n", "d", FirstId - 1, "t", "a", "c"))
    \/ /\ checkedOutItems = <<>>
       /\ \E now \in DueDateNowInputs :
              /\ now.tm_mday <= DaysInMonth(now.tm_year, now.tm_mon)
              /\ checkoutItem(getStringId(FirstId - 1), "Alice", now)
    \/ checkinItem(MakeItem("", "", FirstId - 1))

SpecDueDate == Init /\ [][NextDueDate]_vars

---------------------------------------------------------------------------
(* Several items with one identity: up to MaxDuplicates copies of one     *)
(* Book are added, checked out by their identity and checked in.          *)

MaxDuplicates == 3

NextDuplicates ==
    \/ \E pos \in PositionInputs :
           addItemWithin(pos, MakeBook("n", "d", FirstId - 1, "t", "a", "c"), MaxDuplicates)
    \/ \E by \in NameInputs, now \in NowInputs :
           checkoutItem(getStringId(FirstId - 1), by, now)
    \/ checkinItem(MakeItem("", "", FirstId - 1))

SpecDuplicates == Init /\ [][NextDuplicates]_vars

---------------------------------------------------------------------------
(* Items that change their place: the Book is added to the last           *)
(* compartment of the first shelf only and the Movie to the first         *)
(* compartment of the last shelf only, so that an item found anywhere     *)
(* else has been moved by swapItems.                                      *)

BookSlot == Position(0, NumCompartments - 1)

MovieSlot == Position(NumShelves - 1, 0)

NextSwapped ==
    \/ addItem(BookSlot, MakeBook("n", "d", FirstId - 1, "t", "a", "c"))
    \/ addItem(MovieSlot, MakeMovie("n", "d", FirstId, "t", "r", <<"x", "y">>))
    \/ \E pos1 \in SwapPositionInputs, pos2 \in SwapPositionInputs : swapItems(pos1, pos2)
    \/ \E itemId \in ItemIdInputs, by \in NameInputs, now \in NowInputs :
           checkoutItem(itemId, by, now)
    \/ \E item \in CheckinItemInputs : checkinItem(item)

SpecSwapped == Init /\ [][NextSwapped]_vars

---------------------------------------------------------------------------
(* Inventory::printCheckedOutItems.  checkedOutItems is a                 *)
(* std::map<string, CheckoutInfo>: the range-based for loop visits the    *)
(* pairs in increasing order of the keys under std::less<string>, which   *)
(* compares the strings character by character by their codes.  A line of *)
(* output is the tuple of the values written before its endl.             *)

(* The codes of the characters an id string is made of *)
CharCode(ch) ==
    IF ch = "-" THEN 45
    ELSE 47 + (CHOOSE i \in 1 .. 10 : DigitChars[i] = ch)

(* Comparison by length first, then by the characters *)
RECURSIVE StringLess_ShorterFirst(_, _)
StringLess_ShorterFirst(a, b) ==
    IF Len(a) # Len(b) THEN Len(a) < Len(b)
    ELSE IF a = <<>> THEN FALSE
    ELSE IF Head(a) # Head(b) THEN CharCode(Head(a)) < CharCode(Head(b))
    ELSE StringLess_ShorterFirst(Tail(a), Tail(b))

(* operator< of std::string *)
RECURSIVE StringLess(_, _)
StringLess(a, b) ==
    IF b = <<>> THEN FALSE
    ELSE IF a = <<>> THEN TRUE
    ELSE IF Head(a) # Head(b) THEN CharCode(Head(a)) < CharCode(Head(b))
    ELSE StringLess(Tail(a), Tail(b))

(* The keys of a map in the order an iteration visits them *)
RECURSIVE MapOrder(_)
MapOrder(keys) ==
    IF keys = {} THEN <<>>
    ELSE LET first == CHOOSE k \in keys : \A j \in keys \ {k} : StringLess(k, j)
         IN <<first>> \o MapOrder(keys \ {first})

(* Item::print, which operator<< calls for *info.item, and the endl after *)
PrintItem(item) ==
    << <<"ID: ", item.id>>, <<"Name: ", item.name>>,
       <<"Description: ", item.description>>, <<"">> >>

(* The body of the loop of printCheckedOutItems for one pair *)
PrintPair(first, info) ==
    << <<"Item ID: ", first>> >> \o PrintItem(heap[info.item]) \o
    << <<"Checked out by: ", info.checkedOutBy>>,
       <<"Due date: ", info.dueDate>>,
       <<"Original position - Shelf: ", info.originalPosition.row,
         ", Compartment: ", info.originalPosition.col>>,
       <<"------------------------">> >>

RECURSIVE PrintPairs(_, _)
PrintPairs(map, order) ==
    IF order = <<>> THEN <<>>
    ELSE PrintPair(Head(order), map[Head(order)]) \o PrintPairs(map, Tail(order))

printCheckedOutItems ==
    /\ call' = [NoCall EXCEPT
                  !.op = "printCheckedOutItems",
                  !.out = << <<"=== Checked Out Items ===">> >> \o
                          (IF checkedOutItems = <<>>
                           THEN << <<"No items are currently checked out.">> >>
                           ELSE PrintPairs(checkedOutItems,
                                           MapOrder(DOMAIN checkedOutItems)))]
    /\ UNCHANGED <<shelves, checkedOutItems, heap, passed, freed>>

NextPrint ==
    \/ Next
    \/ printCheckedOutItems

SpecPrint == Init /\ [][NextPrint]_vars

---------------------------------------------------------------------------
(* The failures of the specification and the exceptions of the code:      *)
(* InvalidPosition is out_of_range; SlotOccupied, EmptySlot, ItemNotFound *)
(* and NotCheckedOut are runtime_error, told apart by the message.        *)

Threw(c, type, message) == c.thrown = type /\ c.what = message

InvalidPosition(c) ==
    c.thrown = "out_of_range"
        /\ c.what \in {"Position is out of valid range", "Position is out of range"}

SlotOccupied(c) == Threw(c, "runtime_error", "Compartment is not empty")

EmptySlot(c) ==
    Threw(c, "runtime_error", "Cannot swap: one or both compartments are empty")

ItemNotFound(c) == Threw(c, "runtime_error", "Item with ID not found")

NotCheckedOut(c) == Threw(c, "runtime_error", "Item is not checked out")

StateUnchanged ==
    /\ shelves' = shelves
    /\ checkedOutItems' = checkedOutItems
    /\ heap' = heap
    /\ freed' = freed

(* C11: addItem at a valid position whose slot is occupied fails with     *)
(* SlotOccupied, and the item in the slot stays the same item with the    *)
(* same fields at the same position.                                      *)
C11_OccupiedSlotRejected ==
    [][(call'.op = "addItem" /\ call'.position \in Slots
            /\ Occupied(shelves, call'.position)) =>
         /\ SlotOccupied(call')
         /\ shelves' = shelves
         /\ heap' = heap
         /\ shelves[call'.position.row][call'.position.col] \notin freed']_vars

C11_Witness ==
    /\ call.op = "addItem" /\ SlotOccupied(call)
    /\ Occupied(shelves, call.position)
    /\ heap[shelves[call.position.row][call.position.col]].id # call.item.id

(* C12: addItem at a position outside the grid fails with InvalidPosition *)
(* and touches nothing, whether or not any slot is occupied.              *)
C12_InvalidPositionRejected ==
    [][(call'.op = "addItem" /\ call'.position \notin Slots) =>
         InvalidPosition(call') /\ StateUnchanged]_vars

C12_Witness ==
    /\ call.op = "addItem" /\ InvalidPosition(call)
    /\ call.position.row = NumShelves
    /\ \E pos \in Slots : Occupied(shelves, pos)

(* C13: checkoutItem(identity, _) fails with ItemNotFound whenever no     *)
(* occupied slot holds an item with that identity, also when the identity *)
(* is a Ledger key, and then leaves the Ledger record as it was.          *)
C13_NotOnGridNotFound ==
    [][(call'.op = "checkoutItem" /\ SlotsWithIdentity(call'.itemId) = {}) =>
         ItemNotFound(call') /\ StateUnchanged]_vars

C13_Witness ==
    /\ call.op = "checkoutItem" /\ ItemNotFound(call)
    /\ call.itemId \in DOMAIN checkedOutItems

(* C14: checkinItem(item) fails with NotCheckedOut exactly when the       *)
(* identity of item is not a Ledger key.                                  *)
C14_NotCheckedOutIffNoKey ==
    [][call'.op = "checkinItem" =>
         /\ NotCheckedOut(call') <=> to_string(call'.item.id) \notin DOMAIN checkedOutItems
         /\ call'.thrown = "none" <=> to_string(call'.item.id) \in DOMAIN checkedOutItems]_vars

C14_Witness ==
    /\ call.op = "checkinItem" /\ NotCheckedOut(call)
    /\ SlotsWithIdentity(to_string(call.item.id)) # {}

(* C15: a successful swapItems(pos1, pos2) exchanges the items of the two *)
(* slots and leaves every other slot and the whole Ledger unchanged.      *)
C15_SwapExchanges ==
    [][(call'.op = "swapItems" /\ call'.thrown = "none") =>
         LET p1 == call'.position
             p2 == call'.position2
         IN /\ shelves'[p1.row][p1.col] = shelves[p2.row][p2.col]
            /\ shelves'[p2.row][p2.col] = shelves[p1.row][p1.col]
            /\ \A pos \in Slots \ {p1, p2} :
                   shelves'[pos.row][pos.col] = shelves[pos.row][pos.col]
            /\ checkedOutItems' = checkedOutItems
            /\ freed' = freed]_vars

C15_Witness ==
    /\ call.op = "swapItems" /\ call.thrown = "none"
    /\ call.position # call.position2
    /\ heap[shelves[call.position.row][call.position.col]]
           # heap[shelves[call.position2.row][call.position2.col]]

(* C16: swapItems(p, p) on a valid, occupied slot p succeeds and leaves   *)
(* the Grid unchanged.                                                    *)
C16_SelfSwap ==
    [][(call'.op = "swapItems" /\ call'.position = call'.position2
            /\ call'.position \in Slots /\ Occupied(shelves, call'.position)) =>
         call'.thrown = "none" /\ shelves' = shelves]_vars

C16_Witness ==
    /\ call.op = "swapItems" /\ call.thrown = "none"
    /\ call.position = call.position2
    /\ Occupied(shelves, call.position)

(* C17: swapItems fails with InvalidPosition if either position is        *)
(* outside the grid, whatever the slots hold, and otherwise with          *)
(* EmptySlot if either slot is empty.                                     *)
C17_SwapFailures ==
    [][call'.op = "swapItems" =>
         /\ (call'.position \notin Slots \/ call'.position2 \notin Slots)
                => InvalidPosition(call')
         /\ (/\ call'.position \in Slots /\ call'.position2 \in Slots
             /\ (~Occupied(shelves, call'.position) \/ ~Occupied(shelves, call'.position2)))
                => EmptySlot(call')]_vars

C17_Witness ==
    /\ call.op = "swapItems" /\ InvalidPosition(call)
    /\ \/ call.position \in Slots /\ ~Occupied(shelves, call.position)
       \/ call.position2 \in Slots /\ ~Occupied(shelves, call.position2)
    /\ \E pos \in Slots : Occupied(shelves, pos)

(* C20: isCompartmentEmpty(pos) fails with InvalidPosition when pos is    *)
(* outside the grid, otherwise returns whether the slot holds no item,    *)
(* and never changes anything.                                            *)
C20_IsCompartmentEmpty ==
    [][call'.op = "isCompartmentEmpty" =>
         /\ StateUnchanged
         /\ IF call'.position \in Slots
            THEN /\ call'.thrown = "none"
                 /\ call'.retBool = (shelves[call'.position.row][call'.position.col] = NULL)
            ELSE InvalidPosition(call')]_vars

C20_Witness ==
    /\ call.op = "isCompartmentEmpty" /\ call.thrown = "none"
    /\ ~call.retBool

(* The place of an object in the lifecycle: OnShelf when a slot owns it,  *)
(* CheckedOut when a Ledger record holds it, Unplaced before it is added. *)
ItemState(grid, map, objs, o) ==
    IF o \notin objs THEN "Unplaced"
    ELSE IF \E pos \in Slots : At(grid, pos) = o THEN "OnShelf"
    ELSE IF \E k \in DOMAIN map : map[k].item = o THEN "CheckedOut"
    ELSE "Removed"

LifecycleStep ==
    \A o \in 1 .. Len(heap') :
        LET before == ItemState(shelves, checkedOutItems, Objects, o)
            after == ItemState(shelves', checkedOutItems', 1 .. Len(heap'), o)
        IN \/ before = after /\ before \in {"OnShelf", "CheckedOut"}
           \/ before = "Unplaced" /\ after = "OnShelf" /\ call'.op = "addItem"
           \/ before = "OnShelf" /\ after = "CheckedOut" /\ call'.op = "checkoutItem"
           \/ before = "CheckedOut" /\ after = "OnShelf" /\ call'.op = "checkinItem"

(* An item on the shelf that checkoutItem finds under its identity ends   *)
(* up held by the Ledger record; an item held by a Ledger record is put   *)
(* on the shelf by checkinItem.                                           *)
CycleRepeatable ==
    \A o \in Objects :
        LET itemId == getStringId(heap[o].id) IN
        /\ \A pos \in Slots :
               (At(shelves, pos) = o /\ FindItem(itemId, 0, 0) = pos) =>
                   emplace(checkedOutItems, itemId,
                           CheckoutInfo("Alice", <<>>, pos, o))[itemId].item = o
        /\ (\E k \in DOMAIN checkedOutItems : checkedOutItems[k].item = o) =>
               /\ ~checkinNotFound(checkedOutItems, heap[o])
               /\ \E pos \in Slots :
                      At(checkinShelves(shelves, checkedOutItems, heap[o]), pos) = o

(* C18: an added item moves only from Unplaced to OnShelf by addItem,     *)
(* from OnShelf to CheckedOut by checkoutItem and back by checkinItem,    *)
(* swapItems keeping it OnShelf; and in every reachable state an item on  *)
(* the shelf can be checked out and a checked-out item can be checked in. *)
C18_Lifecycle == [][LifecycleStep]_vars /\ []CycleRepeatable

(* C19: every change of a Grid slot or of the Ledger is the effect of a   *)
(* successful addItem, checkoutItem, checkinItem or swapItems; no other   *)
(* call of the public interface writes a slot or a Ledger entry.          *)
C19_OnlyOperationsWrite ==
    [][(shelves' # shelves \/ checkedOutItems' # checkedOutItems) =>
         /\ call'.op \in {"addItem", "checkoutItem", "checkinItem", "swapItems"}
         /\ call'.thrown = "none"]_vars

(* C21: isItemCheckedOut(identity) never fails, changes nothing and       *)
(* returns true exactly when identity is a Ledger key; an identity        *)
(* becomes a key only by a successful checkoutItem of it and stops being  *)
(* one only by a successful checkinItem of it, which always removes it.   *)
C21_IsItemCheckedOut ==
    [][/\ call'.op = "isItemCheckedOut" =>
            /\ call'.thrown = "none"
            /\ StateUnchanged
            /\ call'.retBool = (call'.itemId \in DOMAIN checkedOutItems)
       /\ (call'.op = "checkoutItem" /\ call'.thrown = "none") =>
            call'.itemId \in DOMAIN checkedOutItems'
       /\ (call'.op = "checkinItem" /\ call'.thrown = "none") =>
            to_string(call'.item.id) \notin DOMAIN checkedOutItems'
       /\ \A k \in DOMAIN checkedOutItems' \ DOMAIN checkedOutItems :
            call'.op = "checkoutItem" /\ call'.thrown = "none" /\ call'.itemId = k
       /\ \A k \in DOMAIN checkedOutItems \ DOMAIN checkedOutItems' :
            call'.op = "checkinItem" /\ call'.thrown = "none"
                /\ to_string(call'.item.id) = k]_vars

C21_Witness ==
    /\ call.op = "isItemCheckedOut" /\ call.retBool
    /\ \E k \in DOMAIN checkedOutItems : k # call.itemId

(* The calendar, independently of the C library: the number of the day    *)
(* (year, month 1..12, day) counted from 1970-01-01                       *)
DaysFromCivil(year, month, day) ==
    LET y   == IF month <= 2 THEN year - 1 ELSE year
        era == y \div 400
        yoe == y - era * 400
        mp  == IF month > 2 THEN month - 3 ELSE month + 9
        doy == (153 * mp + 2) \div 5 + day - 1
        doe == yoe * 365 + yoe \div 4 - yoe \div 100 + doy
    IN era * 146097 + doe - 719468

DigitValue(ch) == (CHOOSE i \in 1 .. 10 : DigitChars[i] = ch) - 1

IsDigit(ch) == \E i \in 1 .. 10 : DigitChars[i] = ch

(* A string of the form YYYY-MM-DD *)
IsIsoDate(str) ==
    /\ Len(str) = 10
    /\ str[5] = "-" /\ str[8] = "-"
    /\ \A i \in {1, 2, 3, 4, 6, 7, 9, 10} : IsDigit(str[i])

IsoYear(str) ==
    1000 * DigitValue(str[1]) + 100 * DigitValue(str[2])
        + 10 * DigitValue(str[3]) + DigitValue(str[4])

IsoMonth(str) == 10 * DigitValue(str[6]) + DigitValue(str[7])

IsoDay(str) == 10 * DigitValue(str[9]) + DigitValue(str[10])

(* The local date of the call *)
LocalDate(now) == localtime(now)

(* C22: the dueDate recorded by checkoutItem is, in the form YYYY-MM-DD,  *)
(* the calendar date 30 days after the local date of the call, for every  *)
(* date and time of day of the call.                                      *)
C22_DueDateThirtyDays ==
    [][(call'.op = "checkoutItem" /\ call'.thrown = "none"
            /\ call'.itemId \notin DOMAIN checkedOutItems) =>
         LET due   == checkedOutItems'[call'.itemId].dueDate
             today == LocalDate(call'.now)
         IN /\ IsIsoDate(due)
            /\ IsoMonth(due) \in 1 .. 12
            /\ IsoDay(due) \in 1 .. DaysInMonth(IsoYear(due) - 1900, IsoMonth(due) - 1)
            /\ DaysFromCivil(IsoYear(due), IsoMonth(due), IsoDay(due))
                   = DaysFromCivil(today.tm_year + 1900, today.tm_mon + 1, today.tm_mday)
                         + DueDays]_vars

(* The first of a set of slots in row-major order *)
FirstSlot(S) ==
    CHOOSE p \in S :
        \A q \in S : p.row < q.row \/ (p.row = q.row /\ p.col <= q.col)

(* C23: when several occupied slots hold items with the requested         *)
(* identity, a successful checkoutItem moves the item of the first of     *)
(* them in row-major order to the Ledger and leaves every other slot as   *)
(* it was.                                                                *)
C23_FirstMatchMoved ==
    [][(call'.op = "checkoutItem" /\ call'.thrown = "none"
            /\ Cardinality(SlotsWithIdentity(call'.itemId)) >= 2) =>
         LET first == FirstSlot(SlotsWithIdentity(call'.itemId)) IN
         /\ call'.retPtr = At(shelves, first)
         /\ At(shelves', first) = NULL
         /\ \A pos \in Slots \ {first} : At(shelves', pos) = At(shelves, pos)
         /\ call'.itemId \in DOMAIN checkedOutItems'
         /\ checkedOutItems'[call'.itemId].item = At(shelves, first)]_vars

(* C24: the originalPosition of a Ledger record is the slot its item      *)
(* occupied at the moment of the checkout, wherever the item was added,   *)
(* and it stays so while the record exists; checkinItem puts the item     *)
(* into that slot and leaves every other slot as it was.  After addItem   *)
(* at p, swapItems(p, q), checkoutItem and checkinItem the item is at q   *)
(* and p holds what the swap put there.                                   *)
C24_OriginalPositionAtCheckout ==
    [][/\ \A k \in DOMAIN checkedOutItems' \ DOMAIN checkedOutItems :
            /\ checkedOutItems'[k].originalPosition \in Slots
            /\ At(shelves, checkedOutItems'[k].originalPosition) = checkedOutItems'[k].item
       /\ \A k \in DOMAIN checkedOutItems' \cap DOMAIN checkedOutItems :
            checkedOutItems'[k] = checkedOutItems[k]
       /\ (call'.op = "checkinItem" /\ call'.thrown = "none") =>
            LET record == checkedOutItems[to_string(call'.item.id)] IN
            /\ At(shelves', record.originalPosition) = record.item
            /\ \A pos \in Slots \ {record.originalPosition} :
                   At(shelves', pos) = At(shelves, pos)]_vars

(* The Book, which is only ever added at BookSlot, has been checked in    *)
(* into MovieSlot, and BookSlot holds the Movie the swap put there.       *)
C24_Witness ==
    /\ call.op = "checkinItem" /\ call.thrown = "none"
    /\ call.item.id = FirstId - 1
    /\ Occupied(shelves, MovieSlot) /\ heap[At(shelves, MovieSlot)].id = FirstId - 1
    /\ Occupied(shelves, BookSlot) /\ heap[At(shelves, BookSlot)].id = FirstId

(* The identity strings of the "Item ID: " lines of an output, in the     *)
(* order they were written                                                *)
RECURSIVE PrintedIds(_)
PrintedIds(out) ==
    IF out = <<>> THEN <<>>
    ELSE IF Head(out)[1] = "Item ID: "
    THEN <<Head(out)[2]>> \o PrintedIds(Tail(out))
    ELSE PrintedIds(Tail(out))

(* a comes before b in lexicographic order: at the first place where they *)
(* differ a has ended or has the smaller character                        *)
LexBefore(a, b) ==
    \E i \in 1 .. Len(b) :
        /\ \A j \in 1 .. i - 1 : j <= Len(a) /\ a[j] = b[j]
        /\ \/ i > Len(a)
           \/ i <= Len(a) /\ DigitValue(a[i]) < DigitValue(b[i])

(* C25: printCheckedOutItems lists every Ledger record once, in           *)
(* increasing lexicographic order of the identity strings ("1000" before  *)
(* "999"), and changes neither Grid nor Ledger.                           *)
C25_PrintedInKeyOrder ==
    [][call'.op = "printCheckedOutItems" =>
         LET ids == PrintedIds(call'.out) IN
         /\ StateUnchanged
         /\ call'.thrown = "none"
         /\ Len(ids) = Cardinality(DOMAIN checkedOutItems)
         /\ {ids[i] : i \in 1 .. Len(ids)} = DOMAIN checkedOutItems
         /\ \A i \in 1 .. Len(ids) - 1 : LexBefore(ids[i], ids[i + 1])]_vars

C25_Witness ==
    /\ call.op = "printCheckedOutItems"
    /\ PrintedIds(call.out) = <<to_string(FirstId), to_string(FirstId - 1)>>

(* C26: in every reachable state every Ledger record holds an item that   *)
(* exists, its key is the decimal string of the identity of that item,    *)
(* and its originalPosition is a slot of the grid.                        *)
C26_RecordsWellFormed ==
    \A k \in DOMAIN checkedOutItems :
        LET record == checkedOutItems[k] IN
        /\ record.item # NULL
        /\ record.item \in Objects \ freed
        /\ to_string(heap[record.item].id) = k
        /\ record.originalPosition.row >= 0 /\ record.originalPosition.row < 3
        /\ record.originalPosition.col >= 0 /\ record.originalPosition.col < 15

C26_Witness ==
    /\ call.op = "checkoutItem" /\ call.thrown = "none"
    /\ Cardinality(DOMAIN checkedOutItems) = 2
    /\ \E k \in DOMAIN checkedOutItems : checkedOutItems[k].item = call.retPtr

============================================================================
